---- MODULE Spec2Model ----
(***************************************************************************)
(* Medtime: the reminder lifecycle (save / edit of a medicine, alarm fire, *)
(* Take / Snooze / Cancel) over the medicine record store, the device      *)
(* alarm registrations and the adherence history.                          *)
(*                                                                         *)
(* Instants are minutes since local midnight of day 0; a time of day is a  *)
(* minute of the day.  Date.now()-based ids are drawn from one strictly    *)
(* increasing counter.                                                     *)
(***************************************************************************)
EXTENDS Bags, FiniteSets, Integers, Sequences, TLC

VARIABLES now, ticks, user, store, regs, history, remote, modal, form, flow,
          alert, nextId, saves, libcall, search, appends

vars == <<now, ticks, user, store, regs, history, remote, modal, form, flow,
          alert, nextId, saves, libcall, search, appends>>

(* ---------------------------- bounds ----------------------------------- *)
MaxSaves == 2
MaxHistory == 1
MaxTicks == 1
MaxRegs == 2
MaxStored == 3
MaxQueryLen == 4

(* --------------------------- constants --------------------------------- *)
SnoozeMinutes == 10
MinutesPerDay == 1440

Null == "null"
Undefined == "undefined"

StartTimes == {480}
TickSteps == {5}
TimeChoices == {480, 490}
Names == {"Paracetamol"}
Dates == {"2025-10-01"}

DoseOptions(name) ==
  CASE name = "Paracetamol" -> {"500 mg"}
    [] name = "Ibuprofeno" -> {"400 mg", "600 mg"}
    [] OTHER -> {}

Sessions ==
  { [mode |-> "none", name |-> Undefined],
    [mode |-> "guest", name |-> Undefined],
    [mode |-> "user", name |-> "u1"] }

Partitions == { <<"guest", Undefined>>, <<"user", Undefined>>, <<"user", "u1">> }

NoItem ==
  [id |-> 0, name |-> Null, dose |-> Null, times |-> <<>>, selectedDates |-> {},
   owner |-> Null, createdAt |-> 0]

NoModal == [id |-> 0, name |-> Null, dose |-> Null, scheduledTime |-> 0]

EmptyForm ==
  [screen |-> "none", editingItem |-> NoItem, selectedMed |-> Null,
   selectedDose |-> Null, dates |-> {}, times |-> <<>>]

IdleFlow ==
  [pc |-> "idle", variant |-> "none", editing |-> FALSE, item |-> NoItem,
   idx |-> 1, total |-> 0, errors |-> 0, calls |-> <<>>]

\* the history key of the local storage before anything was written
NoHistory == [raw |-> "absent", list |-> <<>>]

\* no library function has been called directly
NoCall == [op |-> "none"]

\* the search effect at mount: empty query, no suggestions, no timer, no request
NoSearch == [query |-> <<>>, suggestions |-> [of |-> <<>>, rows |-> <<>>],
             timer |-> [armed |-> FALSE, id |-> 0, query |-> <<>>],
             inflight |-> {}, keys |-> 0]

\* no history append is in flight
NoAppends == <<>>

NoAlert == [kind |-> "none", total |-> 0, errors |-> 0, of |-> 0]

Alert(kind) == [kind |-> kind, total |-> 0, errors |-> 0, of |-> 0]

\* the buttons of an alert: only the save error offers a retry
AlertButtons(kind) ==
  IF kind = "storageError" THEN {"Reintentar", "Cancelar"} ELSE {"OK"}

SaveTiers == {"all", "partial", "nothing"}

ValidationErrors == {"noMedicine", "noDose", "noDate", "noTime", "duplicate"}

(* ------------------------- sequences ----------------------------------- *)
Range(s) == { s[i] : i \in DOMAIN s }

RECURSIVE RemoveFirst(_, _)
RemoveFirst(s, x) ==
  IF s = <<>> THEN <<>>
  ELSE IF Head(s) = x THEN Tail(s)
  ELSE <<Head(s)>> \o RemoveFirst(Tail(s), x)

RemoveAt(s, idx) == [i \in 1..(Len(s) - 1) |-> IF i < idx THEN s[i] ELSE s[i + 1]]

(* ------------------------- time of day --------------------------------- *)
\* Date.getHours() / Date.getMinutes()
Hours(t) == (t % MinutesPerDay) \div 60
Minutes(t) == t % 60

\* the `${t.getHours()}:${t.getMinutes()}` key of the duplicate check
TimeKey(t) == <<Hours(t), Minutes(t)>>

\* the sort key a.getHours() * 60 + a.getMinutes()
MinuteOfDay(t) == Hours(t) * 60 + Minutes(t)

\* a Set of Date objects compares by identity: never a duplicate
HasDuplicatesByIdentity(times) == FALSE

\* uniqueTimes.size !== times.length
HasDuplicates(times) ==
  Cardinality({ TimeKey(times[i]) : i \in DOMAIN times }) # Len(times)

RECURSIVE InsertByMinute(_, _)
InsertByMinute(s, d) ==
  IF s = <<>> THEN <<d>>
  ELSE IF MinuteOfDay(Head(s)) >= MinuteOfDay(d) THEN <<d>> \o s
  ELSE <<Head(s)>> \o InsertByMinute(Tail(s), d)

\* Array.prototype.sort with the minute-of-day comparator (stable)
RECURSIVE SortByMinute(_)
SortByMinute(s) ==
  IF Len(s) <= 1 THEN s ELSE InsertByMinute(SortByMinute(Tail(s)), Head(s))

\* the setTimes updater of onPickTime
PickTime(prev, d) ==
  IF \E i \in DOMAIN prev : Hours(prev[i]) = Hours(d) /\ Minutes(prev[i]) = Minutes(d)
  THEN prev
  ELSE SortByMinute(Append(prev, d))

\* loadMedicineData: each stored ISO instant becomes an hour:minute of today
ToTimesOfDay(times) == [i \in DOMAIN times |-> MinuteOfDay(times[i])]

\* a resolution that never moves to the following date
combineOnCurrentDate(t, clock) ==
  (clock \div MinutesPerDay) * MinutesPerDay + MinuteOfDay(t)

\* next occurrence of a time of day: today if not yet passed, else tomorrow
combineNextOccurrence(t, clock) ==
  LET today == (clock \div MinutesPerDay) * MinutesPerDay + MinuteOfDay(t)
  IN IF today >= clock THEN today ELSE today + MinutesPerDay

(* --------------------------- session ----------------------------------- *)
\* owner / userId as computed by the save flow
SaveOwner(u) == IF u.mode = "guest" THEN "guest" ELSE "user"
SaveUserId(u) == IF u.mode = "user" THEN u.name ELSE Undefined

\* owner / userId as computed by the alarm handlers
AlarmOwner(u) == IF u.mode = "user" THEN "user" ELSE "guest"
AlarmUserId(u) == IF u.mode = "user" THEN u.name ELSE Undefined

(* ----------------------- medicine record store ------------------------- *)
IndexOfId(list, id) ==
  IF \E i \in DOMAIN list : list[i].id = id
  THEN CHOOSE i \in DOMAIN list : list[i].id = id /\ \A j \in 1..(i - 1) : list[j].id # id
  ELSE 0

getLocalMedicines(st, owner, userId) == st[<<owner, userId>>]

writeMedicinesByOwner(st, owner, list, userId) ==
  [st EXCEPT ![<<owner, userId>>] = list]

\* upsert by id in the partition of the item's owner
saveMedicineLocally(st, item, userId) ==
  LET list == st[<<item.owner, userId>>]
      k == IndexOfId(list, item.id)
  IN [st EXCEPT ![<<item.owner, userId>>] =
        IF k = 0 THEN Append(list, item) ELSE [list EXCEPT ![k] = item]]

StoredMeds(st) == UNION { Range(st[p]) : p \in Partitions }

\* searches every partition
findMedicineById(st, id) ==
  IF \E m \in StoredMeds(st) : m.id = id
  THEN CHOOSE m \in StoredMeds(st) : m.id = id
  ELSE NoItem

\* removes one occurrence; FALSE when the medicine or the instant is absent
removeSpecificTimeFromMedicine(st, id, time, owner, userId) ==
  LET list == st[<<owner, userId>>]
      k == IndexOfId(list, id)
  IN IF k = 0 \/ time \notin Range(list[k].times)
     THEN [ok |-> FALSE, store |-> st]
     ELSE [ok |-> TRUE,
           store |-> [st EXCEPT ![<<owner, userId>>] =
                        [list EXCEPT ![k].times = RemoveFirst(list[k].times, time)]]]

(* ------------------------- alarm scheduler ----------------------------- *)
Registration(item, instant) ==
  [id |-> item.id, name |-> item.name, dose |-> item.dose, instant |-> instant]

\* registers exactly one device alarm for the instant
scheduleAlarm(rs, item, instant) == rs (+) SetToBag({Registration(item, instant)})

\* cancels every outstanding registration of the medicine id
cancelAllAlarmsForMedication(rs, id) ==
  LET keep == { r \in BagToSet(rs) : r.id # id }
  IN [r \in keep |-> rs[r]]

RegCount(rs, id, instant) ==
  LET S == { r \in BagToSet(rs) : r.id = id /\ r.instant = instant }
  IN BagCardinality([r \in S |-> rs[r]])

RegCountOfId(rs, id) ==
  LET S == { r \in BagToSet(rs) : r.id = id }
  IN BagCardinality([r \in S |-> rs[r]])

(* ------------------------------ Init ----------------------------------- *)
Init ==
  /\ now \in StartTimes
  /\ ticks = 0
  /\ user \in Sessions
  /\ store = [p \in Partitions |-> <<>>]
  /\ regs = EmptyBag
  /\ history = NoHistory
  /\ remote = <<>>
  /\ modal = NoModal
  /\ form = EmptyForm
  /\ flow = IdleFlow
  /\ alert = NoAlert
  /\ nextId = 1
  /\ saves = 0
  /\ libcall = NoCall
  /\ search = NoSearch
  /\ appends = NoAppends

\* nothing is running and no alert or alarm modal is on screen
Quiet == flow.pc = "idle" /\ alert = NoAlert /\ modal = NoModal

(* ------------------------------ clock ---------------------------------- *)
Tick ==
  /\ Quiet
  /\ form.screen = "none"
  /\ ticks < MaxTicks
  /\ \E d \in TickSteps : now' = now + d
  /\ ticks' = ticks + 1
  /\ UNCHANGED <<search, appends, libcall, user, store, regs, history, remote, modal, form, flow, alert,
                 nextId, saves>>

\* the OK / Cancelar button of an alert; after a save outcome it navigates back
Dismiss ==
  /\ alert # NoAlert
  /\ alert' = NoAlert
  /\ form' = IF alert.kind \in SaveTiers THEN EmptyForm ELSE form
  /\ UNCHANGED <<search, appends, libcall, now, ticks, user, store, regs, history, remote, modal, flow,
                 nextId, saves>>

(* --------------------------- form editing ------------------------------ *)
FormFrame ==
  UNCHANGED <<search, appends, libcall, now, ticks, user, store, regs, history, remote, modal, flow,
              alert, nextId, saves>>

\* the create screen is mounted with an empty form
OpenCreate ==
  /\ Quiet
  /\ form.screen = "none"
  /\ saves < MaxSaves
  /\ form' = [EmptyForm EXCEPT !.screen = "create"]
  /\ FormFrame

\* loadMedicineData of either edit screen
LoadedForm(variant, item) ==
  [screen |-> variant,
   editingItem |-> item,
   selectedMed |-> item.name,
   selectedDose |-> item.dose,
   dates |-> IF variant = "edit1" THEN item.selectedDates ELSE {},
   times |-> ToTimesOfDay(item.times)]

OpenEdit ==
  /\ Quiet
  /\ form.screen = "none"
  /\ saves < MaxSaves
  /\ \E variant \in {"edit1", "edit2"}, m \in StoredMeds(store) :
        form' = LoadedForm(variant, findMedicineById(store, m.id))
  /\ FormFrame

\* a name input that forgets to clear the dose
OnChangeTextKeepingDose ==
  /\ Quiet
  /\ form.screen # "none"
  /\ form.selectedMed # Null
  /\ form' = [form EXCEPT !.selectedMed = Null]
  /\ FormFrame

\* onChangeText of the name input
OnChangeText ==
  /\ Quiet
  /\ form.screen # "none"
  /\ form.selectedMed # Null
  /\ form' = [form EXCEPT !.selectedMed = Null, !.selectedDose = Null]
  /\ FormFrame

OnSelectSuggestion ==
  /\ Quiet
  /\ form.screen # "none"
  /\ form.selectedMed = Null
  /\ \E name \in Names :
        form' = [form EXCEPT !.selectedMed = name, !.selectedDose = Null]
  /\ FormFrame

\* the dose picker is enabled only with a selected medicine
OnDoseChange ==
  /\ Quiet
  /\ form.screen # "none"
  /\ form.selectedMed # Null
  /\ \E d \in DoseOptions(form.selectedMed) \cup {Null} :
        /\ d # form.selectedDose
        /\ form' = [form EXCEPT !.selectedDose = d]
  /\ FormFrame

\* the calendar exists on the create screen and the first edit screen
OnDayPress ==
  /\ Quiet
  /\ form.screen \in {"create", "edit1"}
  /\ \E day \in Dates :
        form' = [form EXCEPT !.dates =
                   IF day \in form.dates THEN form.dates \ {day}
                   ELSE form.dates \cup {day}]
  /\ FormFrame

OnPickTime ==
  /\ Quiet
  /\ form.screen # "none"
  /\ \E d \in TimeChoices :
        /\ PickTime(form.times, d) # form.times
        /\ form' = [form EXCEPT !.times = PickTime(form.times, d)]
  /\ FormFrame

RemoveTimeAt ==
  /\ Quiet
  /\ form.screen # "none"
  /\ \E idx \in DOMAIN form.times :
        form' = [form EXCEPT !.times = RemoveAt(form.times, idx)]
  /\ FormFrame

(* ----------------------------- save flow ------------------------------- *)
\* the date check exists in the create screen and the first edit screen
RequiresDates(screen) == screen \in {"create", "edit1"}

\* a validation that forgets the "at least one time" check
ValidateWithoutTimeCheck(f) ==
  IF f.selectedMed = Null THEN "noMedicine"
  ELSE IF f.selectedDose = Null THEN "noDose"
  ELSE IF RequiresDates(f.screen) /\ f.dates = {} THEN "noDate"
  ELSE IF HasDuplicates(f.times) THEN "duplicate"
  ELSE "ok"

\* the validations of onSave, in order; "ok" when all pass
Validate(f) ==
  IF f.selectedMed = Null THEN "noMedicine"
  ELSE IF f.selectedDose = Null THEN "noDose"
  ELSE IF RequiresDates(f.screen) /\ f.dates = {} THEN "noDate"
  ELSE IF Len(f.times) = 0 THEN "noTime"
  ELSE IF HasDuplicates(f.times) THEN "duplicate"
  ELSE "ok"

IsEditing(f) == f.editingItem # NoItem

\* const item: MedItem = {...}
BuildItem(f, u, clock, freshId) ==
  [id |-> IF IsEditing(f) THEN f.editingItem.id ELSE freshId,
   name |-> f.selectedMed,
   dose |-> f.selectedDose,
   times |-> [i \in DOMAIN f.times |-> combineNextOccurrence(f.times[i], clock)],
   selectedDates |-> IF f.screen = "edit2" THEN {} ELSE f.dates,
   owner |-> IF IsEditing(f) THEN f.editingItem.owner ELSE SaveOwner(u),
   createdAt |-> IF IsEditing(f) THEN f.editingItem.createdAt ELSE clock]

\* an onSave that schedules without having persisted
StepAfterSkippingPersist(step, editing, ok) ==
  CASE step = "validate" -> IF editing THEN "cancel" ELSE "schedule"
    [] step = "cancel" -> "schedule"
    [] step = "persist" -> IF ok THEN "schedule" ELSE "failed"
    [] step = "schedule" -> "report"

\* an onSave that does not cancel the old alarms of an edited medicine
StepAfterSkippingCancel(step, editing, ok) ==
  CASE step = "validate" -> "persist"
    [] step = "cancel" -> "persist"
    [] step = "persist" -> IF ok THEN "schedule" ELSE "failed"
    [] step = "schedule" -> "report"

\* an onSave whose cancellation failure is not caught
StepAfterAbortingOnCancelFailure(step, editing, ok) ==
  CASE step = "validate" -> IF editing THEN "cancel" ELSE "persist"
    [] step = "cancel" -> IF ok THEN "persist" ELSE "failed"
    [] step = "persist" -> IF ok THEN "schedule" ELSE "failed"
    [] step = "schedule" -> "report"

\* an onSave that goes on scheduling after a failed persist
StepAfterIgnoringPersistFailure(step, editing, ok) ==
  CASE step = "validate" -> IF editing THEN "cancel" ELSE "persist"
    [] step = "cancel" -> "persist"
    [] step = "persist" -> "schedule"
    [] step = "schedule" -> "report"

\* the statement order of onSave: what follows a step, given how it ended
StepAfter(step, editing, ok) ==
  CASE step = "validate" -> IF editing THEN "cancel" ELSE "persist"
    [] step = "cancel" -> "persist"
    [] step = "persist" -> IF ok THEN "schedule" ELSE "failed"
    [] step = "schedule" -> "report"

\* a scheduling loop whose try/catch is outside the for
NextIdxAbortingOnThrow(idx, outcome, n) == IF outcome = "throw" THEN n + 1 ELSE idx + 1

\* the for..of over item.times with the try/catch inside
NextIdx(idx, outcome, n) == idx + 1

\* a tier test that reports any error as "none"
ReportTierErrorsFirst(total, errors) ==
  IF errors > 0 THEN "nothing" ELSE IF total > 0 THEN "all" ELSE "nothing"

\* the three-way if of onSave
ReportTier(total, errors) ==
  IF total > 0 /\ errors = 0 THEN "all"
  ELSE IF total > 0 /\ errors > 0 THEN "partial"
  ELSE "nothing"

Call(op, arg, res) == [op |-> op, arg |-> arg, res |-> res]

\* the catch of onSave: the create screen clears the form except the dates
FormAfterError(f) ==
  IF f.screen = "create"
  THEN [f EXCEPT !.selectedMed = Null, !.selectedDose = Null, !.times = <<>>]
  ELSE f

\* the validations and the construction of the item
OnSave ==
  /\ Quiet
  /\ form.screen # "none"
  /\ LET v == Validate(form)
         editing == IsEditing(form)
     IN IF v # "ok"
        THEN /\ alert' = Alert(v)
             /\ UNCHANGED <<flow, nextId, saves>>
        ELSE /\ saves < MaxSaves
             /\ flow' = [pc |-> StepAfter("validate", editing, TRUE),
                         variant |-> form.screen,
                         editing |-> editing,
                         item |-> BuildItem(form, user, now, nextId),
                         idx |-> 1, total |-> 0, errors |-> 0, calls |-> <<>>]
             /\ nextId' = IF editing THEN nextId ELSE nextId + 1
             /\ saves' = saves + 1
             /\ UNCHANGED alert
  /\ UNCHANGED <<search, appends, libcall, now, ticks, user, store, regs, history, remote, modal, form>>

\* goes on to the next step, or leaves the try block through the catch
Continue(next, call) ==
  IF next = "failed"
  THEN /\ flow' = IdleFlow
       /\ form' = FormAfterError(form)
       /\ alert' = Alert("storageError")
  ELSE /\ flow' = [flow EXCEPT !.pc = next, !.calls = Append(@, call)]
       /\ UNCHANGED <<form, alert>>

\* await cancelAllAlarmsForMedication(editingItem.id) inside its own try/catch
SaveCancelOld ==
  /\ flow.pc = "cancel"
  /\ \E ok \in BOOLEAN :
        /\ ok \/ BagCardinality(regs) + Len(flow.item.times) <= MaxRegs
        /\ regs' = IF ok THEN cancelAllAlarmsForMedication(regs, flow.item.id) ELSE regs
        /\ Continue(StepAfter("cancel", flow.editing, ok),
                    Call("cancelAll", RegCountOfId(regs, flow.item.id),
                         IF ok THEN "ok" ELSE "throw"))
  /\ UNCHANGED <<search, appends, libcall, now, ticks, user, store, history, remote, modal, nextId, saves>>

\* await saveMedicineLocally(item, userId)
SavePersist ==
  /\ flow.pc = "persist"
  /\ \E ok \in BOOLEAN :
        /\ store' = IF ok THEN saveMedicineLocally(store, flow.item, SaveUserId(user))
                    ELSE store
        /\ Continue(StepAfter("persist", flow.editing, ok),
                    Call("persist", flow.item.id, IF ok THEN "ok" ELSE "throw"))
  /\ UNCHANGED <<search, appends, libcall, now, ticks, user, regs, history, remote, modal, nextId, saves>>

\* one iteration of the scheduling loop
SaveScheduleOne ==
  /\ flow.pc = "schedule"
  /\ flow.idx <= Len(flow.item.times)
  /\ \E outcome \in {"ok", "empty", "throw"} :
        LET instant == flow.item.times[flow.idx]
            idx2 == NextIdx(flow.idx, outcome, Len(flow.item.times))
        IN /\ regs' = IF outcome = "ok" THEN scheduleAlarm(regs, flow.item, instant)
                      ELSE regs
           /\ flow' = [flow EXCEPT
                 !.idx = idx2,
                 !.total = IF outcome = "ok" THEN @ + 1 ELSE @,
                 !.errors = IF outcome = "throw" THEN @ + 1 ELSE @,
                 !.calls = Append(@, Call("schedule", instant, outcome)),
                 !.pc = IF idx2 > Len(flow.item.times)
                        THEN StepAfter("schedule", flow.editing, TRUE) ELSE @]
  /\ UNCHANGED <<search, appends, libcall, now, ticks, user, store, history, remote, modal, form, alert,
                 nextId, saves>>

\* the outcome alert of onSave; the create screen also clears its form
SaveReport ==
  /\ flow.pc = "report"
  /\ alert' = [kind |-> ReportTier(flow.total, flow.errors),
               total |-> flow.total,
               errors |-> flow.errors,
               of |-> IF flow.variant = "create" THEN 0 ELSE Len(flow.item.times)]
  /\ flow' = IdleFlow
  /\ form' = IF flow.variant = "create" THEN [EmptyForm EXCEPT !.screen = "create"]
             ELSE form
  /\ UNCHANGED <<search, appends, libcall, now, ticks, user, store, regs, history, remote, modal, nextId, saves>>

\* leaving a screen without saving
CloseScreen ==
  /\ Quiet
  /\ form.screen # "none"
  /\ form' = EmptyForm
  /\ FormFrame

(* --------------------------- history ----------------------------------- *)
\* what JSON.parse(raw) gives back is an array unless the stored text was the
\* JSON of something else; an absent or unparseable value reads as []
getHistory(h) ==
  [array |-> h.raw # "null",
   list |-> IF h.raw = "array" THEN h.list ELSE <<>>]

StoredHistory(list) == [raw |-> "array", list |-> list]

\* list.unshift(...) and [...batch, ...list] raise a TypeError on a non-array;
\* setItem may fail; either way nothing is written
WriteHistory(h, added, writeOk) ==
  LET list == getHistory(h)
  IN IF list.array /\ writeOk
     THEN [threw |-> FALSE, stored |-> StoredHistory(added \o list.list)]
     ELSE [threw |-> TRUE, stored |-> h]

\* addToHistory: the entry id doubles as medId; the list is newest-first
addToHistory(h, entry, writeOk) ==
  WriteHistory(h,
     <<[id |-> entry.id, medId |-> entry.id, name |-> entry.name, dose |-> entry.dose,
        scheduledTimes |-> entry.scheduledTimes, status |-> entry.status,
        at |-> entry.at]>>,
     writeOk)

\* addHistoryFromMed: one entry for a medicine, in front of the list
addHistoryFromMed(h, m, status, clock, freshId, writeOk) ==
  WriteHistory(h,
     <<[id |-> freshId, medId |-> m.id, name |-> m.name, dose |-> m.dose,
        scheduledTimes |-> m.times, selectedDates |-> m.selectedDates,
        status |-> status, at |-> clock]>>,
     writeOk)

\* `${Date.now()}_${i}`: one fresh id per element of the batch, i from 0
BatchId(stamp, i) == stamp + i

\* addManyHistoryFromMeds: nothing for an empty list, else the batch in front
addManyHistoryFromMeds(h, meds, status, clock, freshId, writeOk) ==
  IF Len(meds) = 0 THEN [threw |-> FALSE, stored |-> h]
  ELSE WriteHistory(h,
          [i \in DOMAIN meds |->
             [id |-> BatchId(freshId, i - 1), medId |-> meds[i].id,
              name |-> meds[i].name, dose |-> meds[i].dose,
              scheduledTimes |-> meds[i].times,
              selectedDates |-> meds[i].selectedDates,
              status |-> status, at |-> clock]],
          writeOk)

\* the entry built by handleTake / handleCancel
ModalEntry(m, status, clock, freshId) ==
  [id |-> freshId, name |-> m.name, dose |-> m.dose, at |-> clock,
   status |-> status, scheduledTimes |-> <<m.scheduledTime>>]

\* saveHistoryEntryToSupabase: inserted, or null on any error
SupabaseEntry(m, status, clock) ==
  [med_name |-> m.name, dose |-> m.dose, taken_at |-> clock, status |-> status,
   scheduled_times |-> <<m.scheduledTime>>]

\* a handler that pushes to the remote store before the local append is known
MirrorAttemptedBeforeLocal(u, localThrew) == u.mode = "user"

\* a handler that pushes to the remote store whatever the session
MirrorAttemptedForAnySession(u, localThrew) == ~localThrew

\* the mirror is inside if (user?.mode === "user"), after the local append
MirrorAttempted(u, localThrew) == ~localThrew /\ u.mode = "user"

\* the remote table after the mirror call, which inserts or returns null
Mirror(rm, attempted, m, status, clock, ok) ==
  IF attempted /\ ok THEN Append(rm, SupabaseEntry(m, status, clock)) ELSE rm

\* a handler that reports a failed mirror as a failure
OutcomeAlertSurfacingMirror(localThrew, mirrorFailed, done) ==
  IF localThrew \/ mirrorFailed THEN Alert("historyError") ELSE Alert(done)

\* the inner catch alerts and returns; a null from the mirror is only logged
OutcomeAlert(localThrew, mirrorFailed, done) ==
  IF localThrew THEN Alert("historyError") ELSE Alert(done)

(* ------------------------- alarm fire flow ----------------------------- *)
\* the device delivers a due registration; the modal opens with its payload
Fire ==
  /\ Quiet
  /\ form.screen = "none"
  /\ \E r \in BagToSet(regs) :
        /\ r.instant <= now
        /\ regs' = regs (-) SetToBag({r})
        /\ modal' = [id |-> r.id, name |-> r.name, dose |-> r.dose,
                     scheduledTime |-> r.instant]
  /\ UNCHANGED <<search, appends, libcall, now, ticks, user, store, history, remote, form, flow, alert,
                 nextId, saves>>

HandleTake ==
  /\ modal # NoModal
  /\ alert = NoAlert
  /\ Len(getHistory(history).list) < MaxHistory
  /\ \E writeOk \in BOOLEAN, ok \in BOOLEAN :
        LET local == addToHistory(history, ModalEntry(modal, "Tomado", now, nextId),
                                  writeOk)
            attempted == MirrorAttempted(user, local.threw)
        IN /\ ok \/ attempted
           /\ history' = local.stored
           /\ store' = IF local.threw THEN store
                        ELSE removeSpecificTimeFromMedicine(store, modal.id,
                                modal.scheduledTime, AlarmOwner(user),
                                AlarmUserId(user)).store
           /\ remote' = Mirror(remote, attempted, modal, "Tomado", now, ok)
           /\ alert' = OutcomeAlert(local.threw, attempted /\ ~ok, "taken")
           /\ modal' = IF alert'.kind = "taken" THEN NoModal ELSE modal
           /\ nextId' = IF local.threw THEN nextId ELSE nextId + 1
  /\ UNCHANGED <<search, appends, libcall, now, ticks, user, regs, form, flow, saves>>

\* the store after the removal and the append of the snoozed instant
SnoozedStore(st, m, owner, userId) ==
  LET snoozeTime == m.scheduledTime + SnoozeMinutes
      removed == removeSpecificTimeFromMedicine(st, m.id, m.scheduledTime, owner, userId)
      currentMedicines == getLocalMedicines(removed.store, owner, userId)
      k == IndexOfId(currentMedicines, m.id)
  IN IF removed.ok /\ k # 0
     THEN LET updatedMed == [currentMedicines[k] EXCEPT !.times = Append(@, snoozeTime)]
              otherMeds == SelectSeq(currentMedicines, LAMBDA x : x.id # m.id)
          IN writeMedicinesByOwner(removed.store, owner, Append(otherMeds, updatedMed),
                                   userId)
     ELSE removed.store

HandleSnooze ==
  /\ modal # NoModal
  /\ alert = NoAlert
  /\ store' = SnoozedStore(store, modal, AlarmOwner(user), AlarmUserId(user))
  /\ \E outcome \in {"ok", "empty", "throw"} :
        /\ regs' = IF outcome = "ok"
                   THEN scheduleAlarm(regs, modal, modal.scheduledTime + SnoozeMinutes)
                   ELSE regs
        /\ modal' = IF outcome = "throw" THEN modal ELSE NoModal
        /\ alert' = IF outcome = "throw" THEN Alert("snoozeError") ELSE Alert("snoozed")
  /\ UNCHANGED <<search, appends, libcall, now, ticks, user, history, remote, form, flow, nextId, saves>>

\* a Cancel that cleans the occurrence up the way Take does
HandleCancelRemovingOccurrence ==
  /\ modal # NoModal
  /\ alert = NoAlert
  /\ Len(getHistory(history).list) < MaxHistory
  /\ \E writeOk \in BOOLEAN, ok \in BOOLEAN :
        LET local == addToHistory(history, ModalEntry(modal, "Cancelado", now, nextId),
                                  writeOk)
            attempted == MirrorAttempted(user, local.threw)
        IN /\ ok \/ attempted
           /\ history' = local.stored
           /\ store' = IF local.threw THEN store
                        ELSE removeSpecificTimeFromMedicine(store, modal.id,
                                modal.scheduledTime, AlarmOwner(user),
                                AlarmUserId(user)).store
           /\ remote' = Mirror(remote, attempted, modal, "Cancelado", now, ok)
           /\ alert' = OutcomeAlert(local.threw, attempted /\ ~ok, "cancelled")
           /\ modal' = IF alert'.kind = "cancelled" THEN NoModal ELSE modal
           /\ nextId' = IF local.threw THEN nextId ELSE nextId + 1
  /\ UNCHANGED <<search, appends, libcall, now, ticks, user, regs, form, flow, saves>>

HandleCancel ==
  /\ modal # NoModal
  /\ alert = NoAlert
  /\ Len(getHistory(history).list) < MaxHistory
  /\ \E writeOk \in BOOLEAN, ok \in BOOLEAN :
        LET local == addToHistory(history, ModalEntry(modal, "Cancelado", now, nextId),
                                  writeOk)
            attempted == MirrorAttempted(user, local.threw)
        IN /\ ok \/ attempted
           /\ history' = local.stored
           /\ remote' = Mirror(remote, attempted, modal, "Cancelado", now, ok)
           /\ alert' = OutcomeAlert(local.threw, attempted /\ ~ok, "cancelled")
           /\ modal' = IF alert'.kind = "cancelled" THEN NoModal ELSE modal
           /\ nextId' = IF local.threw THEN nextId ELSE nextId + 1
  /\ UNCHANGED <<search, appends, libcall, now, ticks, user, store, regs, form, flow, saves>>

(* ------------------------------ Next ----------------------------------- *)
Next ==
  \/ Tick
  \/ Dismiss
  \/ OpenCreate
  \/ OpenEdit
  \/ OnChangeText
  \/ OnSelectSuggestion
  \/ OnDoseChange
  \/ OnDayPress
  \/ OnPickTime
  \/ RemoveTimeAt
  \/ CloseScreen
  \/ OnSave
  \/ SaveCancelOld
  \/ SavePersist
  \/ SaveScheduleOne
  \/ SaveReport
  \/ Fire
  \/ HandleTake
  \/ HandleSnooze
  \/ HandleCancel

Spec == Init /\ [][Next]_vars

(* ------------- the save flow alone, from a filled-in screen ------------ *)
WideTimeChoices == {480, 490, 500}

\* what onPickTime can build on an emptied time list: sorted, no repeated minute
PickedTimes ==
  { SortByMinute(q) : q \in
      { q \in UNION { [1..n -> WideTimeChoices] : n \in 0..Cardinality(WideTimeChoices) } :
          \A i, j \in DOMAIN q : i # j => q[i] # q[j] } }

\* a medicine as a fully scheduled create-save leaves it
SavedItem(u, clock, times) ==
  [id |-> 1, name |-> "Paracetamol", dose |-> "500 mg",
   times |-> [i \in DOMAIN times |-> combineNextOccurrence(times[i], clock)],
   selectedDates |-> Dates, owner |-> SaveOwner(u), createdAt |-> clock]

InitSave ==
  /\ libcall = NoCall
  /\ search = NoSearch
  /\ appends = NoAppends
  /\ now \in StartTimes
  /\ ticks = 0
  /\ user \in Sessions
  /\ history = NoHistory
  /\ remote = <<>>
  /\ modal = NoModal
  /\ flow = IdleFlow
  /\ alert = NoAlert
  /\ \/ /\ store = [p \in Partitions |-> <<>>]
        /\ regs = EmptyBag
        /\ nextId = 1
        /\ saves = 0
        /\ \E name \in Names \cup {Null}, dates \in SUBSET Dates, times \in PickedTimes :
              \E dose \in DoseOptions(name) \cup {Null} :
                 form = [screen |-> "create", editingItem |-> NoItem,
                         selectedMed |-> name, selectedDose |-> dose,
                         dates |-> dates, times |-> times]
     \/ /\ nextId = 2
        /\ saves = 1
        /\ \E old \in PickedTimes \ {<<>>}, times \in PickedTimes,
              variant \in {"edit1", "edit2"} :
              LET item == SavedItem(user, now, old)
              IN /\ store = saveMedicineLocally([p \in Partitions |-> <<>>], item,
                                                SaveUserId(user))
                 /\ regs = SetToBag({ Registration(item, item.times[i]) :
                                        i \in DOMAIN item.times })
                 /\ form = [LoadedForm(variant, item) EXCEPT !.times = times]

NextSave ==
  \/ OnSave
  \/ SaveCancelOld
  \/ SavePersist
  \/ SaveScheduleOne
  \/ SaveReport
  \/ Dismiss

SpecSave == InitSave /\ [][NextSave]_vars

(* --------- the alarm fire flow alone, from a saved medicine ------------ *)
\* the moments at which the saved medicine is looked at
FireTimes == {480, 490, 500}

InitFire ==
  /\ libcall = NoCall
  /\ search = NoSearch
  /\ appends = NoAppends
  /\ now \in FireTimes
  /\ ticks = 0
  /\ user \in Sessions
  /\ history = NoHistory
  /\ remote = <<>>
  /\ modal = NoModal
  /\ form = EmptyForm
  /\ flow = IdleFlow
  /\ alert = NoAlert
  /\ nextId = 2
  /\ saves = 1
  /\ \E clock \in StartTimes, times \in PickedTimes \ {<<>>} :
        LET item == SavedItem(user, clock, times)
        IN /\ store = saveMedicineLocally([p \in Partitions |-> <<>>], item,
                                          SaveUserId(user))
           /\ regs = SetToBag({ Registration(item, item.times[i]) :
                                  i \in DOMAIN item.times })

NextFire ==
  \/ Tick
  \/ Fire
  \/ HandleTake
  \/ HandleSnooze
  \/ HandleCancel
  \/ Dismiss

SpecFire == InitFire /\ [][NextFire]_vars

(* ------------------- the history functions alone ---------------------- *)
\* what the history key may hold: nothing, an array, text that is not JSON,
\* or the JSON of a value that is not an array
StoredHistoryValues ==
  { NoHistory, StoredHistory(<<>>),
    [raw |-> "unparseable", list |-> <<>>], [raw |-> "null", list |-> <<>>] }

HistoryStatuses == {"Tomado", "Cancelado"}

HistoryMeds ==
  { [SavedItem([mode |-> "guest", name |-> Undefined], 480, times) EXCEPT !.id = id] :
      id \in {101, 102}, times \in {<<480>>, <<480, 490>>} }

HistoryBatches == { <<>> } \cup { <<m>> : m \in HistoryMeds }
                    \cup { <<m1, m2>> : m1 \in HistoryMeds, m2 \in HistoryMeds }

InitHistory ==
  /\ libcall = NoCall
  /\ search = NoSearch
  /\ appends = NoAppends
  /\ now \in StartTimes
  /\ ticks = 0
  /\ user = [mode |-> "guest", name |-> Undefined]
  /\ store = [p \in Partitions |-> <<>>]
  /\ regs = EmptyBag
  /\ history \in StoredHistoryValues
  /\ remote = <<>>
  /\ modal = NoModal
  /\ form = EmptyForm
  /\ flow = IdleFlow
  /\ alert = NoAlert
  /\ nextId = 1
  /\ saves = 0

\* the bookkeeping of a direct call of one of the add functions
HistoryCall(op, names, status, writeOk, result) ==
  /\ Len(getHistory(history).list) + Len(names) <= MaxStored
  /\ history' = result.stored
  /\ nextId' = IF result.threw THEN nextId ELSE nextId + Len(names)
  /\ libcall' = [op |-> op, names |-> names, status |-> status,
                 ioFailed |-> ~writeOk, threw |-> result.threw]

HistoryFrame ==
  UNCHANGED <<search, appends, now, ticks, user, store, regs, remote, modal, form, flow, alert, saves>>

AddToHistoryCall ==
  /\ \E m \in HistoryMeds, status \in HistoryStatuses, writeOk \in BOOLEAN :
        LET payload == [id |-> m.id, name |-> m.name, dose |-> m.dose,
                        scheduledTime |-> m.times[1]]
        IN HistoryCall("addToHistory", <<m.name>>, status, writeOk,
              addToHistory(history, ModalEntry(payload, status, now, nextId), writeOk))
  /\ HistoryFrame

AddHistoryFromMedCall ==
  /\ \E m \in HistoryMeds, status \in HistoryStatuses, writeOk \in BOOLEAN :
        HistoryCall("addHistoryFromMed", <<m.name>>, status, writeOk,
           addHistoryFromMed(history, m, status, now, nextId, writeOk))
  /\ HistoryFrame

AddManyHistoryFromMedsCall ==
  /\ \E meds \in HistoryBatches, status \in HistoryStatuses, writeOk \in BOOLEAN :
        HistoryCall("addManyHistoryFromMeds", [i \in DOMAIN meds |-> meds[i].name],
           status, writeOk,
           addManyHistoryFromMeds(history, meds, status, now, nextId, writeOk))
  /\ HistoryFrame

NextHistory ==
  \/ AddToHistoryCall
  \/ AddHistoryFromMedCall
  \/ AddManyHistoryFromMedsCall

SpecHistory == InitHistory /\ [][NextHistory]_vars

(* ------------------ history appends in flight together ----------------- *)
MaxAppends == 2

AppendMeds == { m \in HistoryMeds : m.times = <<480>> /\ m.id = 101 }

AppendBatches == { <<m>> : m \in AppendMeds }
                   \cup { <<m1, m2>> : m1 \in AppendMeds, m2 \in AppendMeds }

\* an entry written before the calls at hand
OldEntry ==
  [id |-> 7, medId |-> 7, name |-> "Paracetamol", dose |-> "500 mg",
   scheduledTimes |-> <<470>>, status |-> "Tomado", at |-> 470]

InitAppend ==
  /\ libcall = NoCall
  /\ search = NoSearch
  /\ appends = NoAppends
  /\ now \in StartTimes
  /\ ticks = 0
  /\ user = [mode |-> "guest", name |-> Undefined]
  /\ store = [p \in Partitions |-> <<>>]
  /\ regs = EmptyBag
  /\ history \in StoredHistoryValues \cup {StoredHistory(<<OldEntry>>)}
  /\ remote = <<>>
  /\ modal = NoModal
  /\ form = EmptyForm
  /\ flow = IdleFlow
  /\ alert = NoAlert
  /\ nextId = 1
  /\ saves = 0

AppendFrame ==
  UNCHANGED <<search, libcall, now, ticks, user, store, regs, remote, modal, form, flow,
              alert, saves>>

\* a call in flight: the entries it adds, where it stands, and what it read
AppendCall(op, meds, status, added) ==
  [op |-> op, meds |-> meds, status |-> status, added |-> added, pc |-> "called",
   list |-> getHistory(NoHistory)]

\* addToHistory is called: historyEntry is built before the first await
AddToHistoryBegins ==
  /\ Len(appends) < MaxAppends
  /\ \E m \in AppendMeds, status \in HistoryStatuses :
        LET payload == [id |-> m.id, name |-> m.name, dose |-> m.dose,
                        scheduledTime |-> m.times[1]]
            entry == ModalEntry(payload, status, now, nextId)
        IN appends' = Append(appends,
              AppendCall("addToHistory", <<>>, status,
                 <<[id |-> entry.id, medId |-> entry.id, name |-> entry.name,
                    dose |-> entry.dose, scheduledTimes |-> entry.scheduledTimes,
                    status |-> entry.status, at |-> entry.at]>>))
  /\ nextId' = nextId + 1
  /\ history' = history
  /\ AppendFrame

\* addHistoryFromMed is called: entry is built before the first await
AddHistoryFromMedBegins ==
  /\ Len(appends) < MaxAppends
  /\ \E m \in AppendMeds, status \in HistoryStatuses :
        appends' = Append(appends,
           AppendCall("addHistoryFromMed", <<>>, status,
              <<[id |-> nextId, medId |-> m.id, name |-> m.name, dose |-> m.dose,
                 scheduledTimes |-> m.times, selectedDates |-> m.selectedDates,
                 status |-> status, at |-> now]>>))
  /\ nextId' = nextId + 1
  /\ history' = history
  /\ AppendFrame

\* addManyHistoryFromMeds is called with a batch: it reads before it builds
AddManyHistoryFromMedsBegins ==
  /\ Len(appends) < MaxAppends
  /\ \E meds \in AppendBatches, status \in HistoryStatuses :
        appends' = Append(appends,
           AppendCall("addManyHistoryFromMeds", meds, status, <<>>))
  /\ UNCHANGED <<history, nextId>>
  /\ AppendFrame

\* await getHistory() of a call resolves with what the key holds now
AppendReads ==
  /\ \E i \in DOMAIN appends :
        /\ appends[i].pc = "called"
        /\ LET c == appends[i]
               batch == [k \in DOMAIN c.meds |->
                           [id |-> BatchId(nextId, k - 1), medId |-> c.meds[k].id,
                            name |-> c.meds[k].name, dose |-> c.meds[k].dose,
                            scheduledTimes |-> c.meds[k].times,
                            selectedDates |-> c.meds[k].selectedDates,
                            status |-> c.status, at |-> now]]
               many == c.op = "addManyHistoryFromMeds"
           IN /\ appends' = [appends EXCEPT
                               ![i].pc = "read",
                               ![i].list = getHistory(history),
                               ![i].added = IF many THEN batch ELSE @]
              /\ nextId' = IF many THEN nextId + Len(c.meds) ELSE nextId
  /\ history' = history
  /\ AppendFrame

\* the call puts its entries in front of the list it read and setItem stores
\* that list; a list that is no array, or a failing setItem, makes it throw
AppendWrites ==
  /\ \E i \in DOMAIN appends, writeOk \in BOOLEAN :
        /\ appends[i].pc = "read"
        /\ LET c == appends[i]
               stores == c.list.array /\ writeOk
           IN /\ history' = IF stores THEN StoredHistory(c.added \o c.list.list)
                             ELSE history
              /\ appends' = [appends EXCEPT ![i].pc = IF stores THEN "done" ELSE "threw"]
  /\ nextId' = nextId
  /\ AppendFrame

NextAppend ==
  \/ AddToHistoryBegins
  \/ AddHistoryFromMedBegins
  \/ AddManyHistoryFromMedsBegins
  \/ AppendReads
  \/ AppendWrites

SpecAppend == InitAppend /\ [][NextAppend]_vars

(* ------------------------- catalog search ------------------------------ *)
\* a text is the sequence of its characters
\* "_" and "%" are the wildcards of a LIKE pattern
QueryAlphabet == {"a", "p", "P", "r", "_"}

Queries == UNION { [1..n -> QueryAlphabet] : n \in 0..MaxQueryLen }

\* rows of medications_catalog, in the order of .order('name')
Catalog ==
  << [name |-> <<"A", "n", "t", "i", "p", "a", "r", "a", "s", "i", "t", "a", "r", "i", "o">>],
     [name |-> <<"A", "s", "p", "i", "r", "i", "n", "a">>],
     [name |-> <<"P", "a", "r", "a", "c", "e", "t", "a", "m", "o", "l">>],
     [name |-> <<"P", "a", "r", "a", "m", "a", "x">>],
     [name |-> <<"P", "a", "r", "a", "p", "r", "e", "s">>] >>

\* String.prototype.toLowerCase, on the letters used here
LowerChar(c) ==
  CASE c = "A" -> "a" [] c = "I" -> "i" [] c = "P" -> "p" [] OTHER -> c

toLowerCase(t) == [i \in DOMAIN t |-> LowerChar(t[i])]

substring(t, from, to) ==
  SubSeq(t, from + 1, IF to < Len(t) THEN to ELSE Len(t))

\* text LIKE pattern, letters compared without case: "%" stands for any run
\* of characters, "_" for any single one
RECURSIVE LikeMatch(_, _)
LikeMatch(text, pattern) ==
  IF pattern = <<>> THEN text = <<>>
  ELSE IF Head(pattern) = "%"
       THEN \/ LikeMatch(text, Tail(pattern))
            \/ (text # <<>> /\ LikeMatch(Tail(text), pattern))
  ELSE /\ text # <<>>
       /\ (Head(pattern) = "_" \/ LowerChar(Head(pattern)) = LowerChar(Head(text)))
       /\ LikeMatch(Tail(text), Tail(pattern))

\* .ilike('name', pattern): the query text goes into the pattern as it is
ilike(name, pattern) == LikeMatch(name, pattern)

\* .limit(n)
Limit(rows, n) == SubSeq(rows, 1, IF Len(rows) < n THEN Len(rows) ELSE n)

\* the part of searchMedications that talks to the remote store; errAt is the
\* remote query that returns an error (0: none), which the catch turns into []
SearchRemote(query, errAt) ==
  LET queryLower == toLowerCase(query)
      firstFourLetters == substring(queryLower, 0, 4)
      exactMatches ==
         Limit(SelectSeq(Catalog,
                  LAMBDA row : ilike(row.name, firstFourLetters \o <<"%">>)), 2)
      partialMatches ==
         Limit(SelectSeq(Catalog,
                  LAMBDA row : ilike(row.name, <<"%">> \o queryLower \o <<"%">>)), 2)
      tried == Len(queryLower) >= 4
  IN IF tried /\ errAt = 1 THEN [result |-> <<>>, remoteQueries |-> 1]
     ELSE IF tried /\ Len(exactMatches) > 0
          THEN [result |-> exactMatches, remoteQueries |-> 1]
     ELSE LET issued == IF tried THEN 2 ELSE 1
          IN IF errAt = issued THEN [result |-> <<>>, remoteQueries |-> issued]
             ELSE [result |-> partialMatches, remoteQueries |-> issued]

\* a search that sends any query to the remote store
searchMedicationsWithoutLengthCheck(query, errAt) == SearchRemote(query, errAt)

\* if (!query || query.length < 2) return [];
searchMedications(query, errAt) ==
  IF Len(query) < 2 THEN [result |-> <<>>, remoteQueries |-> 0]
  ELSE SearchRemote(query, errAt)

InitSearch ==
  /\ libcall \in { [op |-> "query", query |-> q] : q \in Queries }
  /\ search = NoSearch
  /\ appends = NoAppends
  /\ now \in StartTimes
  /\ ticks = 0
  /\ user = [mode |-> "guest", name |-> Undefined]
  /\ store = [p \in Partitions |-> <<>>]
  /\ regs = EmptyBag
  /\ history = NoHistory
  /\ remote = <<>>
  /\ modal = NoModal
  /\ form = EmptyForm
  /\ flow = IdleFlow
  /\ alert = NoAlert
  /\ nextId = 1
  /\ saves = 0

\* one call of searchMedications on the query at hand
SearchCall ==
  /\ libcall.op = "query"
  /\ \E errAt \in 0..2 :
        LET r == searchMedications(libcall.query, errAt)
        IN libcall' = [op |-> "searchMedications", query |-> libcall.query,
                       errAt |-> errAt, result |-> r.result,
                       remoteQueries |-> r.remoteQueries]
  /\ UNCHANGED <<search, appends, now, ticks, user, store, regs, history, remote, modal, form, flow,
                 alert, nextId, saves>>

NextSearch == SearchCall

SpecSearch == InitSearch /\ [][NextSearch]_vars

(* ------------------------- the search effect --------------------------- *)
MaxKeys == 3

\* what the user may have in the name input
TypedQueries == {<<>>, <<"p", "a">>, <<"a", "r">>, <<"P", "a", "r">>}

InitStale ==
  /\ libcall = NoCall
  /\ search = NoSearch
  /\ appends = NoAppends
  /\ now \in StartTimes
  /\ ticks = 0
  /\ user \in Sessions
  /\ store = [p \in Partitions |-> <<>>]
  /\ regs = EmptyBag
  /\ history = NoHistory
  /\ remote = <<>>
  /\ modal = NoModal
  /\ form = [EmptyForm EXCEPT !.screen = "create"]
  /\ flow = IdleFlow
  /\ alert = NoAlert
  /\ nextId = 1
  /\ saves = 0

SearchFrame ==
  UNCHANGED <<appends, libcall, now, ticks, user, store, regs, history, remote, modal,
              form, flow, alert, nextId, saves>>

\* setQuery from the name input: the effect's cleanup clears the pending
\* timer and the effect arms a new one that holds the new query
Keystroke ==
  /\ search.keys < MaxKeys
  /\ \E q \in TypedQueries \ {search.query} :
        search' = [search EXCEPT !.query = q,
                                 !.keys = @ + 1,
                                 !.timer = [armed |-> TRUE, id |-> search.keys + 1,
                                            query |-> q]]
  /\ SearchFrame

\* the debounce timer runs searchMedicines: an empty query clears the
\* suggestions at once, any other query sends the request
TimerFires ==
  /\ search.timer.armed
  /\ LET t == search.timer
         disarmed == [search EXCEPT !.timer = [armed |-> FALSE, id |-> 0, query |-> <<>>]]
     IN search' = IF t.query = <<>>
                    THEN [disarmed EXCEPT !.suggestions = [of |-> t.query, rows |-> <<>>]]
                    ELSE [disarmed EXCEPT !.inflight = @ \cup {[id |-> t.id, query |-> t.query]}]
  /\ SearchFrame

\* a pending searchMedications resolves and its rows become the suggestions
ResponseArrives ==
  /\ \E r \in search.inflight, errAt \in 0..2 :
        search' = [search EXCEPT
                     !.inflight = @ \ {r},
                     !.suggestions = [of |-> r.query,
                                      rows |-> searchMedications(r.query, errAt).result]]
  /\ SearchFrame

NextStale ==
  \/ Keystroke
  \/ TimerFires
  \/ ResponseArrives

SpecStale == InitStale /\ [][NextStale]_vars

(* ------------------------- catalog load -------------------------------- *)
\* the names of basicMedications
BasicMedications ==
  <<"Paracetamol", "Ibuprofeno", "Aspirina", "Omeprazol", "Amoxicilina",
    "Loratadina", "Diclofenaco", "Metformina">>

\* what medications_catalog may hold when the create screen is mounted
CatalogTables == SUBSET {"Paracetamol", "Aspirina", "Metformina", "Zolpidem"}

\* loadMedicationsCatalog: the rows, or [] when the query fails
loadMedicationsCatalog(table, ok) == IF ok THEN table ELSE {}

\* addMedicationToCatalog: returns the existing row if the lookup finds one;
\* otherwise sends an insert, which the remote store accepts or refuses
addMedicationToCatalog(remoteState, name, lookupOk, insertOk) ==
  IF lookupOk /\ name \in remoteState.table THEN remoteState
  ELSE [table |-> IF insertOk THEN remoteState.table \cup {name} ELSE remoteState.table,
        insertRequests |-> Append(remoteState.insertRequests, name),
        inserted |-> IF insertOk THEN Append(remoteState.inserted, name)
                     ELSE remoteState.inserted]

\* initializeMedicationsCatalog: addMedicationToCatalog for each basic medicine
RECURSIVE initializeMedicationsCatalog(_, _, _, _)
initializeMedicationsCatalog(remoteState, meds, lookupOk, insertOk) ==
  IF meds = <<>> THEN remoteState
  ELSE initializeMedicationsCatalog(
          addMedicationToCatalog(remoteState, Head(meds), lookupOk, insertOk),
          Tail(meds), lookupOk, insertOk)

\* loadCatalog of the create screen: an empty load starts the initialization
loadCatalog(u, table, firstOk, lookupOk, insertOk, secondOk) ==
  LET start == [table |-> table, insertRequests |-> <<>>, inserted |-> <<>>]
      catalogData == loadMedicationsCatalog(table, firstOk)
  IN IF catalogData = {}
     THEN LET after == initializeMedicationsCatalog(start, BasicMedications,
                                                    lookupOk, insertOk)
          IN [remoteState |-> after,
              catalog |-> loadMedicationsCatalog(after.table, secondOk)]
     ELSE [remoteState |-> start, catalog |-> catalogData]

InitCatalog ==
  /\ libcall \in { [op |-> "mount", table |-> t] : t \in CatalogTables }
  /\ search = NoSearch
  /\ appends = NoAppends
  /\ now \in StartTimes
  /\ ticks = 0
  /\ user \in Sessions
  /\ store = [p \in Partitions |-> <<>>]
  /\ regs = EmptyBag
  /\ history = NoHistory
  /\ remote = <<>>
  /\ modal = NoModal
  /\ form = [EmptyForm EXCEPT !.screen = "create"]
  /\ flow = IdleFlow
  /\ alert = NoAlert
  /\ nextId = 1
  /\ saves = 0

\* the mount effect of the create screen
LoadCatalogCall ==
  /\ libcall.op = "mount"
  /\ \E firstOk \in BOOLEAN, lookupOk \in BOOLEAN, insertOk \in BOOLEAN,
        secondOk \in BOOLEAN :
        LET r == loadCatalog(user, libcall.table, firstOk, lookupOk, insertOk, secondOk)
        IN libcall' = [op |-> "loadCatalog", tableBefore |-> libcall.table,
                       fetched |-> firstOk,
                       table |-> r.remoteState.table,
                       insertRequests |-> r.remoteState.insertRequests,
                       inserted |-> r.remoteState.inserted,
                       catalog |-> r.catalog]
  /\ UNCHANGED <<search, appends, now, ticks, user, store, regs, history, remote, modal, form, flow,
                 alert, nextId, saves>>

NextCatalog == LoadCatalogCall

SpecCatalog == InitCatalog /\ [][NextCatalog]_vars

(* ------------- the create screen alone, with two catalog entries ------- *)
WideNames == {"Paracetamol", "Ibuprofeno"}

InitForm ==
  /\ libcall = NoCall
  /\ search = NoSearch
  /\ appends = NoAppends
  /\ now \in StartTimes
  /\ ticks = 0
  /\ user \in Sessions
  /\ store = [p \in Partitions |-> <<>>]
  /\ regs = EmptyBag
  /\ history = NoHistory
  /\ remote = <<>>
  /\ modal = NoModal
  /\ form = [EmptyForm EXCEPT !.screen = "create"]
  /\ flow = IdleFlow
  /\ alert = NoAlert
  /\ nextId = 1
  /\ saves = 0

\* onSelectSuggestion with either catalog entry among the suggestions
OnSelectSuggestionWide ==
  /\ Quiet
  /\ form.screen = "create"
  /\ form.selectedMed = Null
  /\ \E name \in WideNames :
        form' = [form EXCEPT !.selectedMed = name, !.selectedDose = Null]
  /\ FormFrame

NextForm ==
  \/ OpenCreate
  \/ OnChangeText
  \/ OnSelectSuggestionWide
  \/ OnDoseChange
  \/ OnDayPress
  \/ OnPickTime
  \/ RemoveTimeAt
  \/ OnSave
  \/ SavePersist
  \/ SaveScheduleOne
  \/ SaveReport
  \/ Dismiss

SpecForm == InitForm /\ [][NextForm]_vars

(* ====================== properties of the save flow ==================== *)
\* a step of OnSave: from a quiet open screen, it raises an alert or starts a flow
OnSaveStep == Quiet /\ form.screen # "none" /\ (alert' # alert \/ flow' # flow)

TwoEntriesSameHourMinute(times) ==
  \E i, j \in DOMAIN times :
     i # j /\ Hours(times[i]) = Hours(times[j]) /\ Minutes(times[i]) = Minutes(times[j])

ScheduleCalls(calls) == SelectSeq(calls, LAMBDA c : c.op = "schedule")

CountRes(calls, res) == Cardinality({ i \in DOMAIN calls : calls[i].res = res })

CancelFailed(calls) == \E i \in DOMAIN calls : calls[i].op = "cancelAll" /\ calls[i].res = "throw"

\* C1: whenever no save is running, every stored occurrence still in the future
\* has exactly one live registration, and every live registration for a future
\* instant belongs to a stored occurrence of its medicine.
C1_RegistrationsMatchTimes ==
  flow.pc = "idle" =>
    /\ \A m \in StoredMeds(store) : \A i \in DOMAIN m.times :
          m.times[i] > now => RegCount(regs, m.id, m.times[i]) = 1
    /\ \A r \in BagToSet(regs) :
          r.instant > now =>
             \E m \in StoredMeds(store) : m.id = r.id /\ r.instant \in Range(m.times)

C3_DuplicateTimesRejected ==
  [][(OnSaveStep /\ TwoEntriesSameHourMinute(form.times)) =>
        /\ alert'.kind \in ValidationErrors
        /\ flow' = IdleFlow
        /\ UNCHANGED <<store, regs, history, remote>>]_vars

C3_Witness ==
  /\ alert.kind = "duplicate"
  /\ TwoEntriesSameHourMinute(form.times)
  /\ StoredMeds(store) # {}

\* C4: an OnSave on a form lacking a medicine, a dose, a date (create screen),
\* a time, or holding duplicate times ends in a validation alert, starts no
\* flow, and leaves the store, the registrations and the histories untouched.
C4_ValidationFailureMutatesNothing ==
  [][(OnSaveStep /\ (\/ form.selectedMed = Null
                     \/ form.selectedDose = Null
                     \/ (form.screen = "create" /\ form.dates = {})
                     \/ form.times = <<>>
                     \/ TwoEntriesSameHourMinute(form.times))) =>
        /\ alert'.kind \in ValidationErrors
        /\ flow' = IdleFlow
        /\ UNCHANGED <<store, regs, history, remote>>]_vars

C4_Witness ==
  /\ alert.kind = "noTime"
  /\ form.times = <<>>
  /\ StoredMeds(store) # {}
  /\ regs # EmptyBag

\* C5: in a save flow every scheduling call comes after a successful persist
\* call, and from the first scheduling call on the store holds the item.
C5_PersistBeforeSchedule ==
  /\ \A i \in DOMAIN flow.calls :
        flow.calls[i].op = "schedule" =>
           \E j \in 1..(i - 1) : flow.calls[j].op = "persist" /\ flow.calls[j].res = "ok"
  /\ (\E i \in DOMAIN flow.calls : flow.calls[i].op = "schedule") =>
        findMedicineById(store, flow.item.id) = flow.item

C5_Witness ==
  /\ flow.pc = "schedule"
  /\ flow.idx = 2
  /\ Len(flow.item.times) = 2
  /\ RegCount(regs, flow.item.id, flow.item.times[1]) = 1
  /\ RegCount(regs, flow.item.id, flow.item.times[2]) = 0

\* C6: in an edit-save the cancellation step always leads to the persist step,
\* whether it failed or not, without touching the store; the persist step comes
\* after a cancellation call; and the flow that persisted reaches its report
\* with the item stored and one scheduling call per new instant.
C6_CancelFailureDoesNotAbort ==
  [][/\ flow.pc = "cancel" => (flow'.pc = "persist" /\ UNCHANGED store)
     /\ (flow.editing /\ flow.pc = "persist") =>
           \E j \in DOMAIN flow.calls : flow.calls[j].op = "cancelAll"
     /\ (flow.editing /\ flow.pc = "persist" /\ flow'.pc # "idle") =>
           (flow'.pc = "schedule" /\ findMedicineById(store', flow.item.id) = flow.item)
     /\ (flow.editing /\ flow'.pc = "report") =>
           [i \in DOMAIN ScheduleCalls(flow'.calls) |-> ScheduleCalls(flow'.calls)[i].arg]
              = flow.item.times]_vars

C6_Witness ==
  /\ flow.editing /\ flow.pc = "report"
  /\ CancelFailed(flow.calls)
  /\ findMedicineById(store, flow.item.id) = flow.item
  /\ Len(ScheduleCalls(flow.calls)) = Len(flow.item.times)

\* C7: the scheduling loop calls the scheduler once per instant of the item, in
\* order, whatever the earlier calls returned, and its two tallies count the
\* registrations obtained and the errors raised.
C7_ScheduleEachInstantOnce ==
  flow.pc \in {"schedule", "report"} =>
     LET sc == ScheduleCalls(flow.calls)
     IN /\ Len(sc) <= Len(flow.item.times)
        /\ \A i \in DOMAIN sc : sc[i].arg = flow.item.times[i]
        /\ flow.pc = "schedule" => flow.idx = Len(sc) + 1
        /\ flow.pc = "report" => Len(sc) = Len(flow.item.times)
        /\ flow.total = CountRes(sc, "ok")
        /\ flow.errors = CountRes(sc, "throw")

C7_Witness ==
  /\ flow.pc = "report"
  /\ Len(flow.item.times) = 3
  /\ ScheduleCalls(flow.calls)[1].res = "throw"
  /\ ScheduleCalls(flow.calls)[2].res = "ok"
  /\ ScheduleCalls(flow.calls)[3].res = "empty"
  /\ flow.total = 1 /\ flow.errors = 1

C29_AllScheduledMeansEveryInstantRegistered ==
  [][(flow.pc = "report" /\ alert'.kind = "all") =>
        LET sc == ScheduleCalls(flow.calls)
        IN \A i \in DOMAIN flow.item.times :
              \E j \in DOMAIN sc : sc[j].arg = flow.item.times[i] /\ sc[j].res = "ok"]_vars

\* the calendar date of an instant, as a day number
DateOf(t) == t \div MinutesPerDay

C19_PersistFailureIsFatal ==
  [][flow.pc = "persist" =>
        \/ /\ flow'.pc = "schedule"
           /\ findMedicineById(store', flow.item.id) = flow.item
        \/ /\ flow' = IdleFlow
           /\ alert'.kind = "storageError"
           /\ "Reintentar" \in AlertButtons(alert'.kind)
           /\ store' = store
           /\ regs' = regs
           /\ ScheduleCalls(flow.calls) = <<>>
           /\ ~flow.editing =>
                 /\ findMedicineById(store', flow.item.id) = NoItem
                 /\ RegCountOfId(regs', flow.item.id) = 0]_vars

C19_Witness ==
  /\ alert.kind = "storageError"
  /\ flow = IdleFlow
  /\ form.screen = "create"
  /\ nextId = 2
  /\ StoredMeds(store) = {}
  /\ regs = EmptyBag

\* C30: when the persist step of an edit-save fails, the stored record is the
\* one from before the save and the medicine has as many live registrations as
\* it had when the save began.
C30_FailedEditSaveKeepsRecordAndAlarms ==
  [][(flow.editing /\ flow.pc = "persist" /\ alert'.kind = "storageError") =>
        /\ findMedicineById(store', flow.item.id) = findMedicineById(store, flow.item.id)
        /\ store' = store
        /\ \A i \in DOMAIN flow.calls :
              flow.calls[i].op = "cancelAll" =>
                 RegCountOfId(regs', flow.item.id) = flow.calls[i].arg]_vars

\* C23: on the create screen a selected dose goes with a selected medicine of
\* the catalog and is one of its dose options, and so do the name and the dose
\* of the item being saved and of every stored medicine.
C23_DoseBelongsToSelectedMedicine ==
  /\ form.screen = "create" =>
        (form.selectedDose # Null =>
            /\ form.selectedMed \in WideNames
            /\ form.selectedDose \in DoseOptions(form.selectedMed))
  /\ flow.pc # "idle" =>
        (flow.item.name \in WideNames /\ flow.item.dose \in DoseOptions(flow.item.name))
  /\ \A m \in StoredMeds(store) :
        m.name \in WideNames /\ m.dose \in DoseOptions(m.name)

\* a second medicine was picked after a first one had been given its dose
C23_Witness ==
  /\ form.screen = "create"
  /\ form.selectedMed = "Ibuprofeno"
  /\ form.selectedDose = "600 mg"
  /\ \E m \in StoredMeds(store) : m.name = "Paracetamol" /\ m.dose = "500 mg"

\* C25: whatever the session, the partition the save flow writes is the one
\* the Take and Snooze handlers read, so every medicine stored by the save flow
\* is among those the handlers look through.
C25_SaveAndAlarmHandlersSharePartition ==
  LET saved == getLocalMedicines(store, SaveOwner(user), SaveUserId(user))
      seen == getLocalMedicines(store, AlarmOwner(user), AlarmUserId(user))
  IN saved # <<>> =>
       /\ SaveOwner(user) = AlarmOwner(user)
       /\ SaveUserId(user) = AlarmUserId(user)
       /\ \A i \in DOMAIN saved : \E j \in DOMAIN seen : seen[j] = saved[i]

(* ==================== properties of the alarm fire flow ================ *)
\* C9: a Take on the fired occurrence X removes exactly X from the times of the
\* medicine (one entry less, the others kept) and puts exactly one Tomado entry
\* with scheduledTimes = <<X>> in front of the history.
C9_TakeRemovesOccurrence ==
  [][(modal # NoModal /\ alert = NoAlert /\ alert'.kind = "taken") =>
        LET before == findMedicineById(store, modal.id)
            after == findMedicineById(store', modal.id)
        IN /\ after.times = RemoveFirst(before.times, modal.scheduledTime)
           /\ Len(after.times) = Len(before.times) - 1
           /\ Len(getHistory(history').list) = Len(getHistory(history).list) + 1
           /\ Tail(getHistory(history').list) = getHistory(history).list
           /\ getHistory(history').list[1].status = "Tomado"
           /\ getHistory(history').list[1].scheduledTimes = <<modal.scheduledTime>>]_vars

\* C10: a Snooze on the fired occurrence X leaves the times of the medicine
\* without X and with X + 10 minutes, and creates no history entry.
C10_SnoozeReplacesOccurrence ==
  [][(modal # NoModal /\ alert = NoAlert /\ alert'.kind = "snoozed") =>
        LET after == findMedicineById(store', modal.id)
        IN /\ modal.scheduledTime \notin Range(after.times)
           /\ (modal.scheduledTime + 10) \in Range(after.times)
           /\ history' = history
           /\ remote' = remote]_vars

\* C26: whenever a Snooze on the fired occurrence X registers an alarm for
\* X + 10 minutes, the stored times of the medicine contain X + 10 minutes.
C26_SnoozeSchedulesOnlyStoredOccurrence ==
  [][(/\ modal # NoModal
      /\ alert = NoAlert
      /\ alert'.kind = "snoozed"
      /\ regs' = scheduleAlarm(regs, modal, modal.scheduledTime + SnoozeMinutes)) =>
        (modal.scheduledTime + SnoozeMinutes)
            \in Range(findMedicineById(store', modal.id).times)]_vars

\* C26 for sessions where the save flow and the handlers agree on the partition
C26_SnoozeSchedulesOnlyStoredOccurrenceWithSession ==
  [][(/\ user.mode # "none"
      /\ modal # NoModal
      /\ alert = NoAlert
      /\ alert'.kind = "snoozed"
      /\ regs' = scheduleAlarm(regs, modal, modal.scheduledTime + SnoozeMinutes)) =>
        (modal.scheduledTime + SnoozeMinutes)
            \in Range(findMedicineById(store', modal.id).times)]_vars

\* C27: the instant a Snooze stores and schedules is strictly later than the
\* time at which Snooze is pressed, however late that is after X.
C27_SnoozedInstantIsInTheFuture ==
  [][(modal # NoModal /\ alert = NoAlert /\ alert'.kind = "snoozed") =>
        /\ modal.scheduledTime + SnoozeMinutes > now
        /\ \A r \in BagToSet(regs') :
              CopiesIn(r, regs') > CopiesIn(r, regs) => r.instant > now]_vars

\* C11: a Cancel on the fired occurrence X that completes puts exactly one
\* Cancelado entry with scheduledTimes = <<X>> in front of the history and
\* leaves the medicine store as it was, X included.
C11_CancelAppendsAndKeepsStore ==
  [][(modal # NoModal /\ alert = NoAlert /\ alert'.kind = "cancelled") =>
        LET before == getHistory(history).list
            after == getHistory(history').list
        IN /\ Len(after) = Len(before) + 1
           /\ Tail(after) = before
           /\ after[1].status = "Cancelado"
           /\ after[1].scheduledTimes = <<modal.scheduledTime>>
           /\ store' = store]_vars

C11_Witness ==
  /\ alert.kind = "cancelled"
  /\ Len(getHistory(history).list) = 1
  /\ getHistory(history).list[1].status = "Cancelado"
  /\ \E p \in Partitions :
        /\ p[1] = AlarmOwner(user) /\ p[2] = AlarmUserId(user)
        /\ \E i \in DOMAIN store[p] :
              getHistory(history).list[1].scheduledTimes[1] \in Range(store[p][i].times)

\* a step of handleTake or handleCancel, whichever alert it ends in
AlarmHistoryStep ==
  modal # NoModal /\ alert = NoAlert /\ alert'.kind \in {"taken", "cancelled", "historyError"}

C16_MirrorOnlyWhenAuthenticated ==
  [][/\ user.mode # "user" => remote' = remote
     /\ remote' # remote =>
           /\ AlarmHistoryStep
           /\ Len(remote') = Len(remote) + 1
           /\ remote'[Len(remote')].scheduled_times = <<modal.scheduledTime>>]_vars

\* a Cancel without an authenticated session: local entry, no remote row
C16_Witness ==
  /\ user.mode \in {"guest", "none"}
  /\ alert.kind = "cancelled"
  /\ Len(getHistory(history).list) = 1
  /\ remote = <<>>

(* ===================== properties of the medicine store ================ *)
\* C12: no stored medicine has two entries of times with the same hour and
\* minute.
C12_NoTwoTimesAtSameMinute ==
  \A m \in StoredMeds(store) : ~TwoEntriesSameHourMinute(m.times)

SortedByTimeOfDay(times) ==
  \A i, j \in DOMAIN times :
     i < j => \/ Hours(times[i]) < Hours(times[j])
              \/ /\ Hours(times[i]) = Hours(times[j])
                 /\ Minutes(times[i]) <= Minutes(times[j])

\* C13: the times of every stored medicine are in ascending order of hour and
\* minute.
C13_TimesSortedByTimeOfDay ==
  \A m \in StoredMeds(store) : SortedByTimeOfDay(m.times)

(* ==================== properties of the local history ================== *)
\* the list a reader gets, a stored value that is not a list counting as empty
HistoryAsRead(h) == IF getHistory(h).array THEN getHistory(h).list ELSE <<>>

\* C17: whenever an add function is called and the storage write itself does
\* not fail, the call does not raise, and getHistory afterwards returns a list
\* made of the newly added entries, in the order given, followed by exactly
\* what it returned before (nothing for a malformed stored value).
C17_HistoryNewestFirstAppendOnly ==
  [][(/\ libcall'.op \in {"addToHistory", "addHistoryFromMed", "addManyHistoryFromMeds"}
      /\ <<libcall, history>>' # <<libcall, history>>
      /\ ~libcall'.ioFailed) =>
        LET before == HistoryAsRead(history)
            after == getHistory(history')
            n == Len(libcall'.names)
        IN /\ ~libcall'.threw
           /\ after.array
           /\ Len(after.list) = n + Len(before)
           /\ SubSeq(after.list, n + 1, Len(after.list)) = before
           /\ \A i \in 1..n :
                 /\ after.list[i].name = libcall'.names[i]
                 /\ after.list[i].status = libcall'.status
                 /\ \A j \in DOMAIN before : before[j].id # after.list[i].id]_vars

\* C18: the entry that a completed Take or Cancel puts in the history carries
\* in medId the id of the medicine whose alarm fired.
C18_HistoryEntryRefersToMedicine ==
  [][(AlarmHistoryStep /\ alert'.kind \in {"taken", "cancelled"}) =>
        getHistory(history').list[1].medId = modal.id]_vars

\* C28: the entries of every history append that completed are in the stored
\* history, also when another append was in flight at the same time.
C28_NoHistoryEntryLost ==
  \A i \in DOMAIN appends :
     appends[i].pc = "done" =>
        \A k \in DOMAIN appends[i].added :
           \E j \in DOMAIN getHistory(history).list :
              getHistory(history).list[j] = appends[i].added[k]

(* ==================== properties of the catalog search ================= *)
\* the name starts with the text, letter for letter, whatever the case
StartsWithIgnoringCase(name, prefix) ==
  /\ Len(prefix) <= Len(name)
  /\ toLowerCase(SubSeq(name, 1, Len(prefix))) = toLowerCase(prefix)

\* the name contains the text, letter for letter, whatever the case
ContainsIgnoringCase(name, part) ==
  \E k \in 0..(Len(name) - Len(part)) :
     toLowerCase(SubSeq(name, k + 1, k + Len(part))) = toLowerCase(part)

\* C20: a search with a query of fewer than 2 characters returns the empty
\* result and issues no remote query.
C20_ShortQueryReturnsEmpty ==
  (libcall.op = "searchMedications" /\ Len(libcall.query) < 2) =>
     (libcall.result = <<>> /\ libcall.remoteQueries = 0)

\* a one-letter query that occurs in catalog names was searched
C20_Witness ==
  /\ libcall.op = "searchMedications"
  /\ libcall.query = <<"a">>
  /\ \E i \in DOMAIN Catalog : ContainsIgnoringCase(Catalog[i].name, libcall.query)
  /\ libcall.result = <<>>
  /\ libcall.remoteQueries = 0

\* C21: a search returns at most 2 entries; for a query of at least 4
\* characters whose first 4 characters start some catalog name, every entry
\* returned starts with them (and, the remote store answering, there is one);
\* for a shorter query of at least 2 characters, or when no name starts with
\* them, every entry returned contains the query.
C21_PrefixMatchesFirst ==
  libcall.op = "searchMedications" =>
     LET q == libcall.query
         firstFour == SubSeq(q, 1, 4)
         names == { Catalog[i].name : i \in DOMAIN Catalog }
         prefixed == { n \in names : Len(q) >= 4 /\ StartsWithIgnoringCase(n, firstFour) }
         res == libcall.result
     IN /\ Len(res) <= 2
        /\ prefixed # {} =>
              /\ \A i \in DOMAIN res : res[i].name \in prefixed
              /\ libcall.errAt = 0 => res # <<>>
        /\ prefixed = {} =>
              \A i \in DOMAIN res : ContainsIgnoringCase(res[i].name, q)

\* search requests all answered and no timer pending
SearchSettled == ~search.timer.armed /\ search.inflight = {}

\* C24: once every timer has fired and every response has arrived, the
\* suggestions shown are those of the latest query, never of an earlier one.
C24_SettledSuggestionsAreOfLatestQuery ==
  SearchSettled =>
     /\ search.suggestions.of = search.query
     /\ \E errAt \in 0..2 :
           search.suggestions.rows =
             IF search.query = <<>> THEN <<>>
             ELSE searchMedications(search.query, errAt).result

\* C22: a catalog load of the create screen without an authenticated user
\* sends no insert to the remote catalog and leaves its rows as they were,
\* whether the first fetch failed or returned nothing.
C22_NoCatalogInsertWithoutSession ==
  (libcall.op = "loadCatalog" /\ user.mode # "user") =>
     /\ libcall.insertRequests = <<>>
     /\ libcall.table = libcall.tableBefore

====
